---- MODULE Spec2Model ----
(***************************************************************************)
(* Model of the mahjong relay server (src/server.js): the room registry,  *)
(* the socket.io broadcast groups, the pending delayed resyncs and the    *)
(* messages each handler emits; and of its older variant                  *)
(* (src/unnamed/part_000), in the definitions named ..._part000.          *)
(*                                                                         *)
(* Left out: player names and room settings (no handler branches on them),*)
(* the acknowledgment of createRoom (always success) and the read-only    *)
(* handlers getRoomState / requestTurnInfo.                                *)
(***************************************************************************)
EXTENDS Integers, Sequences, FiniteSets

\* ---------------------------------------------------------------- bounds
NumConns == 3       \* connection identities (socket.id) that ever connect
NumRooms == 2       \* values generateRoomId can return
MaxPayload == 1     \* distinct non-null gameState payloads clients submit
MaxTimers == 1      \* pending setTimeout callbacks of playerAction
MaxOps == 4         \* state-changing events per run, any room id
MaxRoomOps == 4     \* state-changing events per run, all on one room id
MaxDeepOps == 7     \* the same, for the long runs on one room id

\* ------------------------------------------------------ program constants
MaxPlayers == 4     \* joinRoom: room.players.length >= 4
MinPlayers == 2     \* startGame: room.players.length < 2

Conns == 1..NumConns
RoomIds == 1..NumRooms
Null == 0                         \* JS null (gameState: null)
Payloads == Null..MaxPayload      \* what a client may put in data.gameState

\* error strings of the source, by the names the specification gives them
RoomNotFound == "RoomNotFound"                \* '房间不存在'
RoomFull == "RoomFull"                        \* '房间已满'
GameAlreadyStarted == "GameAlreadyStarted"    \* '游戏已开始'
InsufficientPlayers == "InsufficientPlayers"  \* '需要至少2名玩家才能开始游戏'
NotHost == "NotHost"                          \* '只有房主可以开始游戏'
NoError == "none"

VARIABLES
  sockets,   \* Conns -> "new" | "connected" | "disconnected"
  rooms,     \* the Map rooms: roomId -> room record, on the ids present
  order,     \* insertion order of the Map's keys (iteration order)
  groups,    \* socket.io broadcast groups: roomId -> set of subscribed sockets
  timers,    \* pending setTimeout closures of playerAction, oldest first
  out,       \* messages emitted by the last handler, in emission order
  last,      \* the kind of event the last handler processed
  budget     \* state-changing events the run may still handle

vars == <<sockets, rooms, order, groups, timers, out, last, budget>>

\* ------------------------------------------------------------ Map helpers
Has(rs, roomId) == roomId \in DOMAIN rs

MapSet(rs, roomId, room) ==
  [x \in DOMAIN rs \cup {roomId} |-> IF x = roomId THEN room ELSE rs[x]]

MapDelete(rs, roomId) == [x \in DOMAIN rs \ {roomId} |-> rs[x]]

\* Array.prototype.find(p => p.id === id): index of the first match, 0 if none
RECURSIVE FindFrom(_, _, _)
FindFrom(players, id, i) ==
  IF i > Len(players) THEN 0
  ELSE IF players[i].id = id THEN i
  ELSE FindFrom(players, id, i + 1)

Find(players, id) == FindFrom(players, id, 1)

\* Array.prototype.filter(p => p.id !== id)
RECURSIVE Filter(_, _)
Filter(players, id) ==
  IF players = <<>> THEN <<>>
  ELSE IF Head(players).id = id THEN Filter(Tail(players), id)
  ELSE <<Head(players)>> \o Filter(Tail(players), id)

Ids(players) == {players[i].id : i \in 1..Len(players)}

\* ------------------------------------------------------- registry functions
NewRoom(hostId) ==
  [players |-> <<[id |-> hostId, isHost |-> TRUE, seat |-> 0]>>,
   gameState |-> Null,
   hostId |-> hostId,
   status |-> "waiting",
   gameReady |-> FALSE]

\* createRoom(hostId, settings); roomId is what generateRoomId returned
createRoom(rs, roomId, hostId) == MapSet(rs, roomId, NewRoom(hostId))

JoinFail(rs, err) ==
  [success |-> FALSE, error |-> err, rooms |-> rs, seat |-> 0 - 1]

\* joinRoom's push with 1-based seats
JoinPushOneBased(rs, roomId, playerId) ==
  LET room == rs[roomId]
      seat == Len(room.players) + 1
      player == [id |-> playerId, isHost |-> FALSE, seat |-> seat]
  IN [success |-> TRUE, error |-> NoError,
      rooms |-> [rs EXCEPT ![roomId].players = Append(room.players, player)],
      seat |-> seat]

JoinPush(rs, roomId, playerId) ==
  LET room == rs[roomId]
      seat == Len(room.players)
      player == [id |-> playerId, isHost |-> FALSE, seat |-> seat]
  IN [success |-> TRUE, error |-> NoError,
      rooms |-> [rs EXCEPT ![roomId].players = Append(room.players, player)],
      seat |-> seat]

\* joinRoom with the error texts of its first two returns swapped
joinRoomSwappedErrors(rs, roomId, playerId) ==
  IF ~Has(rs, roomId) THEN JoinFail(rs, RoomFull)
  ELSE IF Len(rs[roomId].players) >= MaxPlayers THEN JoinFail(rs, RoomNotFound)
  ELSE IF rs[roomId].status # "waiting" THEN JoinFail(rs, GameAlreadyStarted)
  ELSE JoinPush(rs, roomId, playerId)

\* joinRoom without the status check
joinRoomAnyStatus(rs, roomId, playerId) ==
  IF ~Has(rs, roomId) THEN JoinFail(rs, RoomNotFound)
  ELSE IF Len(rs[roomId].players) >= MaxPlayers THEN JoinFail(rs, RoomFull)
  ELSE JoinPush(rs, roomId, playerId)

\* joinRoom(roomId, playerId, playerName)
joinRoom(rs, roomId, playerId) ==
  IF ~Has(rs, roomId) THEN JoinFail(rs, RoomNotFound)
  ELSE IF Len(rs[roomId].players) >= MaxPlayers THEN JoinFail(rs, RoomFull)
  ELSE IF rs[roomId].status # "waiting" THEN JoinFail(rs, GameAlreadyStarted)
  ELSE JoinPush(rs, roomId, playerId)

\* leaveRoom with wasHost looked up after the filter: the host is never found,
\* so no one is promoted
leaveRoomLateLookup(rs, roomId, playerId) ==
  IF ~Has(rs, roomId) THEN rs
  ELSE
    LET rest == [rs[roomId] EXCEPT !.players = Filter(rs[roomId].players, playerId)]
    IN IF Len(rest.players) = 0 THEN MapDelete(rs, roomId)
       ELSE MapSet(rs, roomId, rest)

\* leaveRoom that forgets rooms.delete for an emptied room
leaveRoomNoDelete(rs, roomId, playerId) ==
  IF ~Has(rs, roomId) THEN rs
  ELSE MapSet(rs, roomId,
              [rs[roomId] EXCEPT !.players = Filter(rs[roomId].players, playerId)])

\* a host transfer that also puts the room back to waiting
TransferHostToWaiting(room) ==
  [room EXCEPT !.players[1].isHost = TRUE, !.hostId = room.players[1].id,
               !.status = "waiting"]

\* the host transfer of leaveRoom: players[0] becomes host
TransferHost(room) ==
  [room EXCEPT !.players[1].isHost = TRUE, !.hostId = room.players[1].id]

\* leaveRoom(roomId, playerId)
leaveRoom(rs, roomId, playerId) ==
  IF ~Has(rs, roomId) THEN rs
  ELSE
    LET room == rs[roomId]
        i == Find(room.players, playerId)
        wasHost == i # 0 /\ room.players[i].isHost
        rest == [room EXCEPT !.players = Filter(room.players, playerId)]
    IN IF Len(rest.players) = 0 THEN MapDelete(rs, roomId)
       ELSE IF wasHost THEN MapSet(rs, roomId, TransferHost(rest))
       ELSE MapSet(rs, roomId, rest)

\* ------------------------------------------------------------------ messages
Msg(kind, to, roomId) ==
  [kind |-> kind, to |-> to, roomId |-> roomId, players |-> <<>>,
   status |-> "", hostId |-> 0, gameReady |-> FALSE, gameState |-> Null,
   seat |-> 0 - 1, isHost |-> FALSE, error |-> NoError, playerId |-> 0]

\* broadcastRoomState with the payload of the older server file: players and
\* status, neither hostId nor gameReady
broadcastRoomStateNoHostId(rs, gs, roomId) ==
  IF ~Has(rs, roomId) THEN <<>>
  ELSE <<[Msg("roomState", gs[roomId], roomId) EXCEPT
            !.players = rs[roomId].players,
            !.status = rs[roomId].status]>>

\* broadcastRoomState(roomId): nothing when the room is absent
broadcastRoomState(rs, gs, roomId) ==
  IF ~Has(rs, roomId) THEN <<>>
  ELSE <<[Msg("roomState", gs[roomId], roomId) EXCEPT
            !.players = rs[roomId].players,
            !.status = rs[roomId].status,
            !.hostId = rs[roomId].hostId,
            !.gameReady = rs[roomId].gameReady]>>

\* the acknowledgment callback, when the client supplied one
Ack(cb, c, roomId, success, err, seat) ==
  IF cb THEN <<[Msg("ack", {c}, roomId) EXCEPT
                  !.status = IF success THEN "success" ELSE "failure",
                  !.error = err, !.seat = seat]>>
  ELSE <<>>

\* ------------------------------------------------------------ Map key order
\* Map keys that survive a step, in their old order
RECURSIVE KeepPresent(_, _)
KeepPresent(s, rs2) ==
  IF s = <<>> THEN <<>>
  ELSE IF Has(rs2, Head(s)) THEN <<Head(s)>> \o KeepPresent(Tail(s), rs2)
  ELSE KeepPresent(Tail(s), rs2)

\* ------------------------------------------------------------ timer closures
\* A closure holds the room OBJECT.  While that object is the one the Map
\* holds under roomId the closure reads its current gameState (live); once
\* the object has left the Map (deleted, or replaced by a colliding
\* createRoom) nobody can write it any more and its gameState is frozen.
FreezeOne(t, rs, gone) ==
  IF t.live /\ t.roomId \in gone
  THEN [t EXCEPT !.live = FALSE, !.gameState = rs[t.roomId].gameState]
  ELSE t

Freeze(ts, rs, gone) == [i \in 1..Len(ts) |-> FreezeOne(ts[i], rs, gone)]

Gone(rs, rs2) == DOMAIN rs \ DOMAIN rs2

\* Map key order after a step to registry rs2: Map.set keeps the position of
\* a key already present and puts a new key last (a step adds at most one)
NextOrder(ord, rs2) ==
  LET kept == KeepPresent(ord, rs2)
      new == DOMAIN rs2 \ {ord[i] : i \in 1..Len(ord)}
  IN IF new = {} THEN kept ELSE Append(kept, CHOOSE x \in new : TRUE)

\* ---------------------------------------------------------------- Init
Start ==
  /\ sockets = [c \in Conns |-> "new"]
  /\ rooms = <<>>
  /\ order = <<>>
  /\ groups = [r \in RoomIds |-> {}]
  /\ timers = <<>>
  /\ out = <<>>
  /\ last = "init"

Init == Start /\ budget = MaxOps

\* the same server, driven with every event aimed at one room id
InitRoom == Start /\ budget = MaxRoomOps

\* the same runs, longer
InitDeep == Start /\ budget = MaxDeepOps

Connected(c) == sockets[c] = "connected"

\* socket ids are fresh labels: the unused ones are taken in increasing order
NextId(c) == \A d \in Conns : d < c => sockets[d] # "new"

\* What every handler of an inbound event does to the state: ss2, rs2, gs2,
\* ts2 are the sockets, registry, groups and timers it leaves, msgs what it
\* emitted.  An event that changes the server's state uses up the budget.
Handle(op, ss2, rs2, gs2, ts2, msgs) ==
  LET changed == <<ss2, rs2, gs2, ts2>> # <<sockets, rooms, groups, timers>>
  IN /\ last' = op
     /\ out' = msgs
     /\ changed => budget > 0
     /\ sockets' = ss2
     /\ rooms' = rs2
     /\ order' = NextOrder(order, rs2)
     /\ groups' = gs2
     /\ timers' = ts2
     /\ budget' = IF changed THEN budget - 1 ELSE budget

\* socket.leave forgotten: the socket stays in the group
UnsubscribeNothing(gs, roomId, c) == gs

\* socket.join(roomId) / socket.leave(roomId)
Subscribe(gs, roomId, c) == [gs EXCEPT ![roomId] = @ \cup {c}]
Unsubscribe(gs, roomId, c) == [gs EXCEPT ![roomId] = @ \ {c}]

\* io.on('connection')
OnConnection(c) ==
  /\ sockets[c] = "new" /\ NextId(c)
  /\ sockets' = [sockets EXCEPT ![c] = "connected"]
  /\ out' = <<>>
  /\ last' = "connection"
  /\ UNCHANGED <<rooms, order, groups, timers, budget>>

\* socket.on('createRoom')
OnCreateRoom(c, roomId) ==
  /\ Connected(c)
  /\ LET rs2 == createRoom(rooms, roomId, c)
         gs2 == Subscribe(groups, roomId, c)
     IN Handle("createRoom", sockets, rs2, gs2,
               Freeze(timers, rooms, DOMAIN rooms \cap {roomId}),
               <<[Msg("roomCreated", {c}, roomId) EXCEPT
                    !.seat = 0, !.isHost = TRUE]>>
               \o broadcastRoomState(rs2, gs2, roomId))

\* socket.on('joinRoom')
OnJoinRoom(c, roomId, cb) ==
  /\ Connected(c)
  /\ LET result == joinRoom(rooms, roomId, c)
         gs2 == IF result.success THEN Subscribe(groups, roomId, c) ELSE groups
     IN Handle("joinRoom", sockets, result.rooms, gs2, timers,
               (IF result.success
                THEN <<[Msg("roomJoined", {c}, roomId) EXCEPT
                          !.seat = result.seat, !.isHost = FALSE,
                          !.playerId = c]>>
                     \o broadcastRoomState(result.rooms, gs2, roomId)
                ELSE <<>>)
               \o Ack(cb, c, roomId, result.success, result.error, result.seat))

\* socket.on('leaveRoom')
OnLeaveRoom(c, roomId) ==
  /\ Connected(c)
  /\ LET rs2 == leaveRoom(rooms, roomId, c)
         gs2 == Unsubscribe(groups, roomId, c)
     IN Handle("leaveRoom", sockets, rs2, gs2,
               Freeze(timers, rooms, Gone(rooms, rs2)),
               broadcastRoomState(rs2, gs2, roomId))

\* startGame that lets any member start the game
startGameAnyMember(rs, roomId, c) ==
  IF ~Has(rs, roomId) \/ Len(rs[roomId].players) < MinPlayers
  THEN InsufficientPlayers
  ELSE IF Find(rs[roomId].players, c) = 0 THEN NotHost ELSE NoError

\* startGame that asks for more than 2 players (<= for <)
startGameOffByOne(rs, roomId, c) ==
  IF ~Has(rs, roomId) \/ Len(rs[roomId].players) <= MinPlayers
  THEN InsufficientPlayers
  ELSE LET i == Find(rs[roomId].players, c)
       IN IF i = 0 \/ ~rs[roomId].players[i].isHost THEN NotHost ELSE NoError

\* the outcome of socket.on('startGame'): the error it emits, or none
startGame(rs, roomId, c) ==
  IF ~Has(rs, roomId) \/ Len(rs[roomId].players) < MinPlayers
  THEN InsufficientPlayers
  ELSE LET i == Find(rs[roomId].players, c)
       IN IF i = 0 \/ ~rs[roomId].players[i].isHost THEN NotHost ELSE NoError

\* socket.on('startGame')
OnStartGame(c, roomId) ==
  /\ Connected(c)
  /\ LET err == startGame(rooms, roomId, c)
     IN IF err = NoError
        THEN Handle("startGame", sockets,
                    [rooms EXCEPT ![roomId].status = "playing",
                                  ![roomId].gameReady = FALSE],
                    groups, timers,
                    <<[Msg("gameStarted", groups[roomId], roomId) EXCEPT
                         !.players = rooms[roomId].players,
                         !.status = "playing",
                         !.hostId = rooms[roomId].hostId]>>)
        ELSE Handle("startGame", sockets, rooms, groups, timers,
                    <<[Msg("error", {c}, roomId) EXCEPT !.error = err]>>)

\* the guard of gameReady letting any player of the room pass
gameReadyAnyMember(rs, roomId, c) ==
  Has(rs, roomId) /\ Find(rs[roomId].players, c) # 0

\* the guard of socket.on('gameReady')
gameReady(rs, roomId, c) == Has(rs, roomId) /\ rs[roomId].hostId = c

\* socket.on('gameReady')
OnGameReady(c, roomId) ==
  /\ Connected(c)
  /\ IF gameReady(rooms, roomId, c)
     THEN Handle("gameReady", sockets,
                 [rooms EXCEPT ![roomId].gameReady = TRUE], groups, timers,
                 <<[Msg("gameReadyNotify", groups[roomId], roomId) EXCEPT
                      !.gameState = rooms[roomId].gameState]>>)
     ELSE Handle("gameReady", sockets, rooms, groups, timers, <<>>)

\* the guard shared by gameStateUpdate and playerAction: index of the
\* sender's first player record, 0 when the room or the player is absent
Member(rs, roomId, c) == IF Has(rs, roomId) THEN Find(rs[roomId].players, c) ELSE 0

\* gameStateUpdate without the check of the sender's membership
gameStateUpdateAnyone(rs, roomId, c, gameState) ==
  IF ~Has(rs, roomId) THEN rs
  ELSE [rs EXCEPT ![roomId].gameState = gameState]

\* the registry after socket.on('gameStateUpdate')
gameStateUpdate(rs, roomId, c, gameState) ==
  IF Member(rs, roomId, c) = 0 THEN rs
  ELSE [rs EXCEPT ![roomId].gameState = gameState]

\* socket.to(roomId): the group without the sender
ToOthers(gs, roomId, c) == gs[roomId] \ {c}

\* socket.on('gameStateUpdate')
OnGameStateUpdate(c, roomId, gameState) ==
  /\ Connected(c)
  /\ LET i == Member(rooms, roomId, c)
     IN Handle("gameStateUpdate", sockets,
               gameStateUpdate(rooms, roomId, c, gameState), groups, timers,
               IF i = 0 THEN <<>>
               ELSE <<[Msg("gameStateSync", ToOthers(groups, roomId, c), roomId)
                         EXCEPT !.gameState = gameState,
                                !.seat = rooms[roomId].players[i].seat,
                                !.isHost = rooms[roomId].players[i].isHost]>>)

\* the closure playerAction hands to setTimeout
Closure(rs, roomId, c, i) ==
  [roomId |-> roomId, socket |-> c,
   seat |-> rs[roomId].players[i].seat,
   isHost |-> rs[roomId].players[i].isHost,
   live |-> TRUE, gameState |-> Null]

\* socket.on('playerAction'); action and params are relayed untouched
OnPlayerAction(c, roomId) ==
  /\ Connected(c)
  /\ LET i == Member(rooms, roomId, c)
         schedule == i # 0 /\ rooms[roomId].gameState # Null
     IN /\ schedule => Len(timers) < MaxTimers
        /\ Handle("playerAction", sockets, rooms, groups,
                  IF schedule THEN Append(timers, Closure(rooms, roomId, c, i))
                  ELSE timers,
                  IF i = 0 THEN <<>>
                  ELSE <<[Msg("actionBroadcast", groups[roomId], roomId) EXCEPT
                            !.seat = rooms[roomId].players[i].seat,
                            !.isHost = rooms[roomId].players[i].isHost]>>)

\* the gameState a closure reads when it fires
ClosureState(t, rs) == IF t.live THEN rs[t.roomId].gameState ELSE t.gameState

\* the setTimeout callback of playerAction
OnTimer ==
  /\ timers # <<>>
  /\ LET t == Head(timers)
     IN out' = <<[Msg("gameStateSync", ToOthers(groups, t.roomId, t.socket),
                      t.roomId)
                   EXCEPT !.gameState = ClosureState(t, rooms), !.seat = t.seat,
                          !.isHost = t.isHost]>>
  /\ last' = "timer"
  /\ timers' = Tail(timers)
  /\ UNCHANGED <<sockets, rooms, order, groups, budget>>

\* the disconnect handler leaving its loop after the first room it cleans
RECURSIVE DisconnectLoopFirstOnly(_, _, _, _)
DisconnectLoopFirstOnly(ord, rs, gs, c) ==
  IF ord = <<>> THEN [rooms |-> rs, out |-> <<>>]
  ELSE
    LET roomId == Head(ord)
        room == rs[roomId]
    IN IF c \in Ids(room.players)
       THEN LET rs2 == leaveRoom(rs, roomId, c)
                hostId == IF Has(rs2, roomId) THEN rs2[roomId].hostId
                          ELSE room.hostId
            IN [rooms |-> rs2,
                out |-> broadcastRoomState(rs2, gs, roomId)
                        \o (IF room.status = "playing"
                            THEN <<[Msg("playerDisconnected", gs[roomId], roomId)
                                      EXCEPT !.playerId = c, !.hostId = hostId]>>
                            ELSE <<>>)]
       ELSE DisconnectLoopFirstOnly(Tail(ord), rs, gs, c)

\* the disconnect handler's loop over rooms.entries(), in key order
RECURSIVE DisconnectLoop(_, _, _, _)
DisconnectLoop(ord, rs, gs, c) ==
  IF ord = <<>> THEN [rooms |-> rs, out |-> <<>>]
  ELSE
    LET roomId == Head(ord)
        room == rs[roomId]
    IN IF c \in Ids(room.players)
       THEN LET rs2 == leaveRoom(rs, roomId, c)
                hostId == IF Has(rs2, roomId) THEN rs2[roomId].hostId
                          ELSE room.hostId
                rest == DisconnectLoop(Tail(ord), rs2, gs, c)
            IN [rooms |-> rest.rooms,
                out |-> broadcastRoomState(rs2, gs, roomId)
                        \o (IF room.status = "playing"
                            THEN <<[Msg("playerDisconnected", gs[roomId], roomId)
                                      EXCEPT !.playerId = c, !.hostId = hostId]>>
                            ELSE <<>>)
                        \o rest.out]
       ELSE DisconnectLoop(Tail(ord), rs, gs, c)

\* socket.on('disconnect'); socket.io has already taken the socket out of
\* every group when the handler runs
OnDisconnect(c) ==
  /\ Connected(c)
  /\ LET gs2 == [r \in RoomIds |-> groups[r] \ {c}]
         res == DisconnectLoop(order, rooms, gs2, c)
     IN Handle("disconnect", [sockets EXCEPT ![c] = "disconnected"],
               res.rooms, gs2, Freeze(timers, rooms, Gone(rooms, res.rooms)),
               res.out)

Next ==
  \/ \E c \in Conns : OnConnection(c)
  \/ \E c \in Conns, roomId \in RoomIds : OnCreateRoom(c, roomId)
  \/ \E c \in Conns, roomId \in RoomIds, cb \in BOOLEAN : OnJoinRoom(c, roomId, cb)
  \/ \E c \in Conns, roomId \in RoomIds : OnLeaveRoom(c, roomId)
  \/ \E c \in Conns, roomId \in RoomIds : OnStartGame(c, roomId)
  \/ \E c \in Conns, roomId \in RoomIds : OnGameReady(c, roomId)
  \/ \E c \in Conns, roomId \in RoomIds, gameState \in Payloads :
        OnGameStateUpdate(c, roomId, gameState)
  \/ \E c \in Conns, roomId \in RoomIds : OnPlayerAction(c, roomId)
  \/ OnTimer
  \/ \E c \in Conns : OnDisconnect(c)

Spec == Init /\ [][Next]_vars

\* the one value generateRoomId returns in these runs
TheRoom == CHOOSE r \in RoomIds : \A q \in RoomIds : r <= q

NextRoom ==
  \/ \E c \in Conns : OnConnection(c)
  \/ \E c \in Conns : OnCreateRoom(c, TheRoom)
  \/ \E c \in Conns, cb \in BOOLEAN : OnJoinRoom(c, TheRoom, cb)
  \/ \E c \in Conns : OnLeaveRoom(c, TheRoom)
  \/ \E c \in Conns : OnStartGame(c, TheRoom)
  \/ \E c \in Conns : OnGameReady(c, TheRoom)
  \/ \E c \in Conns, gameState \in Payloads :
        OnGameStateUpdate(c, TheRoom, gameState)
  \/ \E c \in Conns : OnPlayerAction(c, TheRoom)
  \/ OnTimer
  \/ \E c \in Conns : OnDisconnect(c)

SpecRoom == InitRoom /\ [][NextRoom]_vars

SpecDeep == InitDeep /\ [][NextRoom]_vars

\* createRoom when generateRoomId returns an id that no room of the registry
\* has (the case a 6-character random id makes overwhelmingly likely)
OnCreateRoomFresh(c, roomId) == ~Has(rooms, roomId) /\ OnCreateRoom(c, roomId)

NextFresh ==
  \/ \E c \in Conns : OnConnection(c)
  \/ \E c \in Conns, roomId \in RoomIds : OnCreateRoomFresh(c, roomId)
  \/ \E c \in Conns, roomId \in RoomIds, cb \in BOOLEAN : OnJoinRoom(c, roomId, cb)
  \/ \E c \in Conns, roomId \in RoomIds : OnLeaveRoom(c, roomId)
  \/ \E c \in Conns, roomId \in RoomIds : OnStartGame(c, roomId)
  \/ \E c \in Conns, roomId \in RoomIds : OnGameReady(c, roomId)
  \/ \E c \in Conns, roomId \in RoomIds, gameState \in Payloads :
        OnGameStateUpdate(c, roomId, gameState)
  \/ \E c \in Conns, roomId \in RoomIds : OnPlayerAction(c, roomId)
  \/ OnTimer
  \/ \E c \in Conns : OnDisconnect(c)

SpecFresh == Init /\ [][NextFresh]_vars

\* ------------------------------------- the older server file (part_000)
\* src/unnamed/part_000 is the same server before hostId, gameReady and the
\* delayed resync were added.  Its rooms are records without hostId and
\* gameReady; it runs on the same variables, timers staying empty.
NewRoom_part000(hostId) ==
  [players |-> <<[id |-> hostId, isHost |-> TRUE, seat |-> 0]>>,
   gameState |-> Null,
   status |-> "waiting"]

createRoom_part000(rs, roomId, hostId) ==
  MapSet(rs, roomId, NewRoom_part000(hostId))

joinRoom_part000(rs, roomId, playerId) ==
  IF ~Has(rs, roomId) THEN JoinFail(rs, RoomNotFound)
  ELSE IF Len(rs[roomId].players) >= MaxPlayers THEN JoinFail(rs, RoomFull)
  ELSE IF rs[roomId].status # "waiting" THEN JoinFail(rs, GameAlreadyStarted)
  ELSE LET seat == Len(rs[roomId].players)
           player == [id |-> playerId, isHost |-> FALSE, seat |-> seat]
       IN [success |-> TRUE, error |-> NoError,
           rooms |-> [rs EXCEPT ![roomId].players = Append(@, player)],
           seat |-> seat]

\* leaveRoom of part_000: the players are filtered first and the leaver is
\* looked up afterwards, in the filtered array
leaveRoom_part000(rs, roomId, playerId) ==
  IF ~Has(rs, roomId) THEN rs
  ELSE
    LET room == rs[roomId]
        rest == [room EXCEPT !.players = Filter(room.players, playerId)]
        i == Find(rest.players, playerId)
        wasHost == i # 0 /\ rest.players[i].isHost
    IN IF Len(rest.players) = 0 THEN MapDelete(rs, roomId)
       ELSE IF wasHost /\ Len(rest.players) > 0
            THEN MapSet(rs, roomId, [rest EXCEPT !.players[1].isHost = TRUE])
            ELSE MapSet(rs, roomId, rest)

broadcastRoomState_part000(rs, gs, roomId) ==
  IF ~Has(rs, roomId) THEN <<>>
  ELSE <<[Msg("roomState", gs[roomId], roomId) EXCEPT
            !.players = rs[roomId].players,
            !.status = rs[roomId].status]>>

OnCreateRoom_part000(c, roomId) ==
  /\ Connected(c)
  /\ LET rs2 == createRoom_part000(rooms, roomId, c)
         gs2 == Subscribe(groups, roomId, c)
     IN Handle("createRoom", sockets, rs2, gs2, timers,
               <<[Msg("roomCreated", {c}, roomId) EXCEPT !.seat = 0]>>
               \o broadcastRoomState_part000(rs2, gs2, roomId))

OnJoinRoom_part000(c, roomId, cb) ==
  /\ Connected(c)
  /\ LET result == joinRoom_part000(rooms, roomId, c)
         gs2 == IF result.success THEN Subscribe(groups, roomId, c) ELSE groups
     IN Handle("joinRoom", sockets, result.rooms, gs2, timers,
               (IF result.success
                THEN <<[Msg("roomJoined", {c}, roomId) EXCEPT
                          !.seat = result.seat]>>
                     \o broadcastRoomState_part000(result.rooms, gs2, roomId)
                ELSE <<>>)
               \o Ack(cb, c, roomId, result.success, result.error, result.seat))

OnLeaveRoom_part000(c, roomId) ==
  /\ Connected(c)
  /\ LET rs2 == leaveRoom_part000(rooms, roomId, c)
         gs2 == Unsubscribe(groups, roomId, c)
     IN Handle("leaveRoom", sockets, rs2, gs2, timers,
               broadcastRoomState_part000(rs2, gs2, roomId))

\* the outcome of part_000's socket.on('startGame'): its error, or none
startGame_part000(rs, roomId, c) ==
  IF ~Has(rs, roomId) \/ Len(rs[roomId].players) < MinPlayers
  THEN InsufficientPlayers
  ELSE LET i == Find(rs[roomId].players, c)
       IN IF i = 0 \/ ~rs[roomId].players[i].isHost THEN NotHost ELSE NoError

OnStartGame_part000(c, roomId) ==
  /\ Connected(c)
  /\ LET err == startGame_part000(rooms, roomId, c)
     IN IF err = NoError
        THEN Handle("startGame", sockets,
                    [rooms EXCEPT ![roomId].status = "playing"],
                    groups, timers,
                    <<[Msg("gameStarted", groups[roomId], roomId) EXCEPT
                         !.players = rooms[roomId].players]>>)
        ELSE Handle("startGame", sockets, rooms, groups, timers,
                    <<[Msg("error", {c}, roomId) EXCEPT !.error = err]>>)

OnGameStateUpdate_part000(c, roomId, gameState) ==
  /\ Connected(c)
  /\ LET i == Member(rooms, roomId, c)
     IN Handle("gameStateUpdate", sockets,
               IF i = 0 THEN rooms
               ELSE [rooms EXCEPT ![roomId].gameState = gameState],
               groups, timers,
               IF i = 0 THEN <<>>
               ELSE <<[Msg("gameStateSync", ToOthers(groups, roomId, c), roomId)
                         EXCEPT !.gameState = gameState,
                                !.seat = rooms[roomId].players[i].seat]>>)

\* part_000's playerAction relays the action and schedules nothing
OnPlayerAction_part000(c, roomId) ==
  /\ Connected(c)
  /\ LET i == Member(rooms, roomId, c)
     IN Handle("playerAction", sockets, rooms, groups, timers,
               IF i = 0 THEN <<>>
               ELSE <<[Msg("actionBroadcast", groups[roomId], roomId) EXCEPT
                         !.seat = rooms[roomId].players[i].seat]>>)

RECURSIVE DisconnectLoop_part000(_, _, _, _)
DisconnectLoop_part000(ord, rs, gs, c) ==
  IF ord = <<>> THEN [rooms |-> rs, out |-> <<>>]
  ELSE
    LET roomId == Head(ord)
    IN IF c \in Ids(rs[roomId].players)
       THEN LET rs2 == leaveRoom_part000(rs, roomId, c)
                rest == DisconnectLoop_part000(Tail(ord), rs2, gs, c)
            IN [rooms |-> rest.rooms,
                out |-> broadcastRoomState_part000(rs2, gs, roomId) \o rest.out]
       ELSE DisconnectLoop_part000(Tail(ord), rs, gs, c)

OnDisconnect_part000(c) ==
  /\ Connected(c)
  /\ LET gs2 == [r \in RoomIds |-> groups[r] \ {c}]
         res == DisconnectLoop_part000(order, rooms, gs2, c)
     IN Handle("disconnect", [sockets EXCEPT ![c] = "disconnected"],
               res.rooms, gs2, timers, res.out)

Next_part000 ==
  \/ \E c \in Conns : OnConnection(c)
  \/ \E c \in Conns, roomId \in RoomIds : OnCreateRoom_part000(c, roomId)
  \/ \E c \in Conns, roomId \in RoomIds, cb \in BOOLEAN :
        OnJoinRoom_part000(c, roomId, cb)
  \/ \E c \in Conns, roomId \in RoomIds : OnLeaveRoom_part000(c, roomId)
  \/ \E c \in Conns, roomId \in RoomIds : OnStartGame_part000(c, roomId)
  \/ \E c \in Conns, roomId \in RoomIds, gameState \in Payloads :
        OnGameStateUpdate_part000(c, roomId, gameState)
  \/ \E c \in Conns, roomId \in RoomIds : OnPlayerAction_part000(c, roomId)
  \/ \E c \in Conns : OnDisconnect_part000(c)

Spec_part000 == Init /\ [][Next_part000]_vars

\* ------------------------------------------------------------------ claims
Players(r) == rooms[r].players

HostIndexes(room) == {i \in 1..Len(room.players) : room.players[i].isHost}

Seats(room) == {room.players[i].seat : i \in 1..Len(room.players)}

\* C1: every room of the registry has exactly one player record with
\* isHost = TRUE, and the room's hostId is that player's id.
C1_OneHost ==
  \A r \in DOMAIN rooms :
    \E i \in 1..Len(Players(r)) :
      /\ HostIndexes(rooms[r]) = {i}
      /\ rooms[r].hostId = Players(r)[i].id

\* a room whose host was promoted by a departure (its host did not create it)
C1_Witness ==
  /\ last \in {"leaveRoom", "disconnect"}
  /\ \E r \in DOMAIN rooms :
       /\ Len(Players(r)) >= 2
       /\ Players(r)[1].isHost /\ Players(r)[1].seat > 0

\* the host of room r leaves it (leaveRoom or disconnect) and r stays
HostLeaves(c, r) ==
  /\ last' \in {"leaveRoom", "disconnect"}
  /\ Has(rooms, r) /\ rooms[r].hostId = c
  /\ Has(rooms', r)
  /\ OnLeaveRoom(c, r) \/ OnDisconnect(c)

\* the one host of the room has the smallest seat of the room, and is hostId
HostHasSmallestSeat(room) ==
  \E i \in 1..Len(room.players) :
    /\ HostIndexes(room) = {i}
    /\ room.hostId = room.players[i].id
    /\ \A s \in Seats(room) : room.players[i].seat <= s

\* C2: whenever the host leaves a room that stays non-empty, the player
\* promoted to host has the smallest seat among the remaining players and
\* hostId is that player's id.
C2_PromotesSmallestSeat ==
  [][\A c \in Conns, r \in RoomIds :
       HostLeaves(c, r) => HostHasSmallestSeat(rooms'[r])]_vars

\* C3: every room of the registry has between 1 and 4 player records.
C3_RoomSize ==
  \A r \in DOMAIN rooms : Len(Players(r)) \in 1..MaxPlayers

\* two events changed the state and nobody disconnected: a createRoom, then
\* the leaveRoom of its only player, and the room is gone from the registry
C3_Witness ==
  /\ last = "leaveRoom"
  /\ budget = MaxRoomOps - 2
  /\ \A c \in Conns : sockets[c] # "disconnected"
  /\ DOMAIN rooms = {}

\* C4: no room holds two player records with the same id.
C4_UniqueIds ==
  \A r \in DOMAIN rooms :
    \A i, j \in 1..Len(Players(r)) : i # j => Players(r)[i].id # Players(r)[j].id

\* C5: a joinRoom on a waiting room with n < 4 players succeeds, appends the
\* record [id = requester, isHost = FALSE, seat = n] at the end of players and
\* leaves the existing records as they were; so k joins in a row are seated
\* n, n+1, ... until the room has 4 players.
C5_JoinAppends ==
  [][\A r \in DOMAIN rooms, c \in Conns, cb \in BOOLEAN :
       (/\ last' = "joinRoom"
        /\ rooms[r].status = "waiting"
        /\ Len(rooms[r].players) < MaxPlayers
        /\ OnJoinRoom(c, r, cb))
       => /\ Has(rooms', r)
          /\ rooms'[r].players =
               Append(rooms[r].players,
                      [id |-> c, isHost |-> FALSE, seat |-> Len(rooms[r].players)])
          /\ \E i \in 1..Len(out') :
               /\ out'[i].kind = "roomJoined" /\ out'[i].to = {c}
               /\ out'[i].seat = Len(rooms[r].players)
          /\ cb => \E i \in 1..Len(out') :
                     /\ out'[i].kind = "ack" /\ out'[i].status = "success"
                     /\ out'[i].seat = Len(rooms[r].players)]_vars

\* joins in a row have filled a room: the last one was seated 3
C5_Witness ==
  /\ last = "joinRoom"
  /\ \E i \in 1..Len(out) : out[i].kind = "roomJoined" /\ out[i].seat = MaxPlayers - 1
  /\ \E r \in DOMAIN rooms :
       \A i \in 1..Len(Players(r)) : Players(r)[i].seat = i - 1

\* what a failed joinRoom emits: the acknowledgment with the error, to the
\* requester, when a callback was given, and nothing else
OnlyErrorAck(msgs, c, cb, err) ==
  /\ Len(msgs) = (IF cb THEN 1 ELSE 0)
  /\ \A i \in 1..Len(msgs) :
       /\ msgs[i].kind = "ack" /\ msgs[i].status = "failure"
       /\ msgs[i].error = err /\ msgs[i].to = {c}

\* C6 as stated, for a full room: joinRoom on a room with 4 players fails
\* with RoomFull, the registry is unchanged, the requester is not subscribed
\* to the room's group, and nothing is sent to any other connection.
C6_FullJoinLeavesRequesterUnsubscribed ==
  [][\A r \in DOMAIN rooms, c \in Conns, cb \in BOOLEAN :
       (/\ last' = "joinRoom"
        /\ Len(rooms[r].players) = MaxPlayers
        /\ OnJoinRoom(c, r, cb))
       => /\ joinRoom(rooms, r, c).error = RoomFull
          /\ rooms' = rooms
          /\ c \notin groups'[r]
          /\ \A i \in 1..Len(out') : out'[i].to = {c}]_vars

\* C6 (amended): joinRoom on an id that is not in the registry fails with
\* RoomNotFound and joinRoom on a room with 4 players fails with RoomFull;
\* in both cases the registry and every group subscription are unchanged (the
\* failed join subscribes nobody) and the only message is the error
\* acknowledgment to the requester, when a callback was given.
C6_FailedJoin ==
  [][\A r \in RoomIds, c \in Conns, cb \in BOOLEAN :
       (/\ last' = "joinRoom"
        /\ ~Has(rooms, r) \/ Len(rooms[r].players) = MaxPlayers
        /\ OnJoinRoom(c, r, cb))
       => /\ joinRoom(rooms, r, c).error =
               (IF Has(rooms, r) THEN RoomFull ELSE RoomNotFound)
          /\ rooms' = rooms
          /\ groups' = groups
          /\ OnlyErrorAck(out', c, cb, joinRoom(rooms, r, c).error)]_vars

\* a member of a full room has asked to join it again and got RoomFull
C6_Witness ==
  /\ last = "joinRoom"
  /\ Len(out) = 1 /\ out[1].error = RoomFull
  /\ Has(rooms, out[1].roomId)
  /\ Len(Players(out[1].roomId)) = MaxPlayers
  /\ out[1].to \subseteq groups[out[1].roomId]

\* C7 as stated: joinRoom on a playing room fails with GameAlreadyStarted
\* whatever the room's player count, and leaves the players unchanged.
C7_PlayingJoinGameAlreadyStarted ==
  [][\A r \in DOMAIN rooms, c \in Conns, cb \in BOOLEAN :
       (/\ last' = "joinRoom"
        /\ rooms[r].status = "playing"
        /\ OnJoinRoom(c, r, cb))
       => /\ joinRoom(rooms, r, c).error = GameAlreadyStarted
          /\ rooms' = rooms]_vars

\* C7 (amended): joinRoom on a playing room with 1 to 3 players fails with
\* GameAlreadyStarted, on a playing room with 4 players it fails with
\* RoomFull; either way the room's players are unchanged.
C7_PlayingJoinFails ==
  [][\A r \in DOMAIN rooms, c \in Conns, cb \in BOOLEAN :
       (/\ last' = "joinRoom"
        /\ rooms[r].status = "playing"
        /\ OnJoinRoom(c, r, cb))
       => /\ joinRoom(rooms, r, c).error =
               (IF Len(rooms[r].players) < MaxPlayers
                THEN GameAlreadyStarted ELSE RoomFull)
          /\ rooms' = rooms
          /\ OnlyErrorAck(out', c, cb, joinRoom(rooms, r, c).error)]_vars

\* a join was refused with GameAlreadyStarted by a playing room that is
\* down to one player
C7_Witness ==
  /\ last = "joinRoom"
  /\ Len(out) = 1 /\ out[1].error = GameAlreadyStarted
  /\ Has(rooms, out[1].roomId)
  /\ rooms[out[1].roomId].status = "playing"
  /\ Len(Players(out[1].roomId)) = 1

\* a refused startGame: one error to the requester, the registry untouched
StartRefused(c, err) ==
  /\ Len(out') = 1
  /\ out'[1].kind = "error" /\ out'[1].error = err /\ out'[1].to = {c}
  /\ rooms' = rooms

\* C8 as stated: startGame from a requester who is not the room's host fails
\* with NotHost for every room whatever its player count, the error goes to
\* the requester only and status and gameReady are unchanged.
C8_NonHostGetsNotHost ==
  [][\A r \in DOMAIN rooms, c \in Conns :
       (/\ last' = "startGame"
        /\ rooms[r].hostId # c
        /\ OnStartGame(c, r))
       => StartRefused(c, NotHost)]_vars

\* C8 (amended): startGame from a requester who is not the room's host fails
\* with NotHost when the room has at least 2 players (with fewer it fails
\* with InsufficientPlayers); the error goes to the requester only and the
\* room's status and gameReady are unchanged.
C8_NonHostRefused ==
  [][\A r \in DOMAIN rooms, c \in Conns :
       (/\ last' = "startGame"
        /\ rooms[r].hostId # c
        /\ OnStartGame(c, r))
       => StartRefused(c, IF Len(rooms[r].players) >= MinPlayers
                          THEN NotHost ELSE InsufficientPlayers)]_vars

\* a member who is not the host was refused with NotHost
C8_Witness ==
  /\ last = "startGame"
  /\ Len(out) = 1 /\ out[1].error = NotHost
  /\ Has(rooms, out[1].roomId)
  /\ out[1].to \subseteq Ids(Players(out[1].roomId))
  /\ rooms[out[1].roomId].status = "waiting"

\* C9: startGame succeeds exactly when the room exists, has at least 2
\* players and the requester is its host; then status becomes playing,
\* gameReady FALSE, and one gameStarted with status playing and the hostId
\* goes to every member, the requester included; otherwise nothing in the
\* registry changes and the requester gets an error, InsufficientPlayers when
\* the room has fewer than 2 players.
C9_StartGame ==
  [][\A r \in RoomIds, c \in Conns :
       (last' = "startGame" /\ OnStartGame(c, r))
       => IF Has(rooms, r) /\ Len(rooms[r].players) >= MinPlayers
             /\ rooms[r].hostId = c
          THEN /\ rooms' = [rooms EXCEPT ![r].status = "playing",
                                         ![r].gameReady = FALSE]
               /\ Len(out') = 1
               /\ out'[1].kind = "gameStarted" /\ out'[1].status = "playing"
               /\ out'[1].hostId = rooms[r].hostId
               /\ out'[1].players = rooms[r].players
               /\ Ids(rooms[r].players) \subseteq out'[1].to
               /\ c \in out'[1].to
          ELSE /\ \E err \in {InsufficientPlayers, NotHost} : StartRefused(c, err)
               /\ (Has(rooms, r) /\ Len(rooms[r].players) < MinPlayers)
                    => StartRefused(c, InsufficientPlayers)]_vars

\* a game was started in a room that was ready, with two connections in it
C9_Witness ==
  /\ last = "startGame"
  /\ Len(out) = 1 /\ out[1].kind = "gameStarted"
  /\ Cardinality(out[1].to) >= 2
  /\ rooms[out[1].roomId].status = "playing"

\* the step is a createRoom that put a new room under r
Created(r) == last' = "createRoom" /\ \E c \in Conns : OnCreateRoom(c, r)

\* C10: a room's gameState is Null when the room is created, becomes the
\* payload of each gameStateUpdate its sender is a member for, and no other
\* step changes it; a gameStateUpdate from a non-member changes and emits
\* nothing, one from a member emits one gameStateSync to every other member
\* and not to the sender.
C10_GameStateLastWriter ==
  [][IF last' = "gameStateUpdate"
     THEN \A r \in RoomIds, c \in Conns, g \in Payloads :
            \/ IF Has(rooms, r) /\ c \in Ids(rooms[r].players)
               THEN /\ Len(out') = 1
                    /\ out'[1].kind = "gameStateSync" /\ out'[1].gameState = g
                    /\ Ids(rooms[r].players) \ {c} \subseteq out'[1].to
                    /\ c \notin out'[1].to
                    /\ rooms' = [rooms EXCEPT ![r].gameState = g]
               ELSE out' = <<>> /\ rooms' = rooms
            \/ ~OnGameStateUpdate(c, r, g)
     ELSE \A r \in DOMAIN rooms' :
            IF Has(rooms, r) /\ ~Created(r)
            THEN rooms'[r].gameState = rooms[r].gameState
            ELSE rooms'[r].gameState = Null]_vars

\* a member's update was stored and relayed to another connection
C10_Witness ==
  /\ last = "gameStateUpdate"
  /\ Len(out) = 1 /\ out[1].to # {}
  /\ out[1].gameState # Null
  /\ rooms[out[1].roomId].gameState = out[1].gameState

\* the rooms of the registry that connection c is a player of
RoomsOf(c) == {r \in DOMAIN rooms : c \in Ids(Players(r))}

\* C11: every live connection is a player of at most one room of the
\* registry, whatever createRoom and joinRoom messages it has sent.
C11_OneRoomPerConnection ==
  \A c \in Conns : Connected(c) => Cardinality(RoomsOf(c)) <= 1

\* message i of msgs is a roomState of room r as the registry rs has it, sent
\* to (at least) every player of the room
IsRoomState(msgs, i, rs, r) ==
  /\ msgs[i].kind = "roomState" /\ msgs[i].roomId = r
  /\ msgs[i].players = rs[r].players /\ msgs[i].status = rs[r].status
  /\ msgs[i].hostId = rs[r].hostId /\ msgs[i].gameReady = rs[r].gameReady
  /\ Ids(rs[r].players) \subseteq msgs[i].to

\* message j of msgs tells the players of room r that c disconnected, and
\* names as new host the player of r that has isHost = TRUE
IsPlayerDisconnected(msgs, j, rs, r, c) ==
  /\ msgs[j].kind = "playerDisconnected" /\ msgs[j].roomId = r
  /\ msgs[j].playerId = c
  /\ Ids(rs[r].players) \subseteq msgs[j].to
  /\ \E k \in 1..Len(rs[r].players) :
       rs[r].players[k].isHost /\ rs[r].players[k].id = msgs[j].hostId

\* C12: after the disconnect handler of connection c no room holds a player
\* with id c; the players left in each room that held c are sent a roomState
\* of that room and, after it, a playerDisconnected with playerId = c and
\* newHostId = the id of the player who now has isHost = TRUE exactly when
\* the room's status was playing.
C12_Disconnect ==
  [][\A c \in Conns :
       (last' = "disconnect" /\ OnDisconnect(c))
       => /\ \A r \in DOMAIN rooms' : c \notin Ids(rooms'[r].players)
          /\ \A r \in DOMAIN rooms :
               (c \in Ids(rooms[r].players) /\ Has(rooms', r))
               => \E i \in 1..Len(out') :
                    /\ IsRoomState(out', i, rooms', r)
                    /\ IF rooms[r].status = "playing"
                       THEN \E j \in (i + 1)..Len(out') :
                              IsPlayerDisconnected(out', j, rooms', r, c)
                       ELSE \A j \in 1..Len(out') :
                              ~(/\ out'[j].kind = "playerDisconnected"
                                /\ out'[j].roomId = r)]_vars

\* the host of a playing room disconnected: the player left was promoted and
\* told so, after the roomState
C12_Witness ==
  /\ last = "disconnect"
  /\ Len(out) = 2
  /\ out[1].kind = "roomState" /\ out[2].kind = "playerDisconnected"
  /\ Has(rooms, out[2].roomId)
  /\ rooms[out[2].roomId].hostId = out[2].hostId
  /\ Players(out[2].roomId)[1].seat > 0
  /\ sockets[out[2].playerId] = "disconnected"

\* the step changed the membership or the status of room r, or put r into the
\* registry
RoomChanged(r) ==
  /\ Has(rooms', r)
  /\ \/ ~Has(rooms, r)
     \/ rooms'[r].players # rooms[r].players
     \/ rooms'[r].status # rooms[r].status

\* the handler emitted a roomState of room r as the registry now has it
RoomStateSent(r) == \E i \in 1..Len(out') : IsRoomState(out', i, rooms', r)

\* C13 as stated: every step that changes the membership or the status of a
\* room and leaves it in the registry emits a roomState snapshot of the new
\* room to its members, a successful startGame included.
C13_RoomStateAfterEveryChange ==
  [][\A r \in RoomIds : RoomChanged(r) => RoomStateSent(r)]_vars

\* C13 (amended): every createRoom, joinRoom, leaveRoom and disconnect that
\* changes the membership of a room and leaves it in the registry emits a
\* roomState snapshot (players, status, hostId, gameReady) of the new room to
\* its members; a successful startGame, the one step that changes the status,
\* emits no roomState but one gameStarted with the players, status playing
\* and the hostId to the members.
C13_RoomStateAfterMembershipChange ==
  [][\A r \in RoomIds :
       RoomChanged(r)
       => IF last' = "startGame"
          THEN /\ Len(out') = 1
               /\ out'[1].kind = "gameStarted" /\ out'[1].roomId = r
               /\ out'[1].status = "playing" /\ rooms'[r].status = "playing"
               /\ out'[1].players = rooms'[r].players
               /\ out'[1].hostId = rooms'[r].hostId
               /\ Ids(rooms'[r].players) \subseteq out'[1].to
          ELSE /\ last' \in {"createRoom", "joinRoom", "leaveRoom", "disconnect"}
               /\ RoomStateSent(r)]_vars

\* a leaveRoom of the host: the players left got the roomState that names
\* the promoted host
C13_Witness ==
  /\ last = "leaveRoom"
  /\ Len(out) = 1 /\ out[1].kind = "roomState"
  /\ out[1].to # {}
  /\ out[1].players # <<>>
  /\ out[1].players[1].seat > 0
  /\ out[1].hostId = out[1].players[1].id
  /\ out[1].hostId \in out[1].to

\* the player who scheduled the closure t is no longer in its room, or the
\* room is no longer in the registry
ActorGone(t) == ~Has(rooms, t.roomId) \/ t.socket \notin Ids(Players(t.roomId))

\* C14: when the delayed callback of playerAction fires after its acting
\* player has left the room or the room was deleted, no gameStateSync is
\* delivered to any connection; and the callback never changes the registry.
C14_TimerSilentWhenGone ==
  [][(last' = "timer" /\ OnTimer)
     => /\ rooms' = rooms
        /\ ActorGone(Head(timers)) => \A i \in 1..Len(out') : out'[i].to = {}]_vars

\* C15: a room enters the registry waiting; its status changes only from
\* waiting to playing and only in a successful startGame step; no step takes
\* a playing room back to waiting, so a playing room stays playing for as
\* long as it is in the registry.
C15_StatusOnlyAdvances ==
  [][\A r \in DOMAIN rooms' :
       IF Has(rooms, r) /\ ~Created(r)
       THEN /\ rooms[r].status = "playing" => rooms'[r].status = "playing"
            /\ rooms'[r].status # rooms[r].status
                 => /\ rooms[r].status = "waiting"
                    /\ rooms'[r].status = "playing"
                    /\ last' = "startGame"
                    /\ Len(out') = 1 /\ out'[1].kind = "gameStarted"
       ELSE rooms'[r].status = "waiting"]_vars

\* a playing room lost its host and is still playing under the promoted one
C15_Witness ==
  /\ last \in {"leaveRoom", "disconnect"}
  /\ \E r \in DOMAIN rooms :
       /\ rooms[r].status = "playing"
       /\ Players(r)[1].isHost /\ Players(r)[1].seat > 0

\* what a gameReady message from c for room r does
GameReadyEffect(c, r) ==
  IF Has(rooms, r) /\ rooms[r].hostId = c
  THEN /\ rooms' = [rooms EXCEPT ![r].gameReady = TRUE]
       /\ Len(out') = 1
       /\ out'[1].kind = "gameReadyNotify" /\ out'[1].roomId = r
       /\ out'[1].gameState = rooms[r].gameState
       /\ Ids(rooms[r].players) \subseteq out'[1].to
  ELSE rooms' = rooms /\ out' = <<>>

\* C16: gameReady is FALSE in a new room; a gameReady message from the
\* room's current host sets it TRUE and sends gameReadyNotify with the stored
\* gameState to every member, one from anybody else changes and emits
\* nothing; no other step makes it TRUE; every successful startGame leaves it
\* FALSE.
C16_GameReady ==
  [][IF last' = "gameReady"
     THEN \A r \in RoomIds, c \in Conns :
            GameReadyEffect(c, r) \/ ~OnGameReady(c, r)
     ELSE \A r \in DOMAIN rooms' :
            IF Has(rooms, r) /\ ~Created(r)
            THEN /\ rooms'[r].gameReady => rooms[r].gameReady
                 /\ (/\ last' = "startGame"
                     /\ \E c \in Conns : /\ startGame(rooms, r, c) = NoError
                                         /\ OnStartGame(c, r))
                      => ~rooms'[r].gameReady
            ELSE ~rooms'[r].gameReady]_vars

\* the host of a playing room (whose start had reset gameReady) declared the
\* game ready and every player was notified
C16_Witness ==
  /\ last = "gameReady"
  /\ Len(out) = 1 /\ out[1].kind = "gameReadyNotify"
  /\ Cardinality(out[1].to) >= 2
  /\ rooms[out[1].roomId].gameReady
  /\ rooms[out[1].roomId].status = "playing"

\* C17: no two players present in the same room have the same seat value
\* (which the reuse of a departed player's seat by a later joiner breaks).
C17_UniqueSeats ==
  \A r \in DOMAIN rooms :
    \A i, j \in 1..Len(Players(r)) :
      i # j => Players(r)[i].seat # Players(r)[j].seat

\* the connection ids among the players of room r, none when r is absent
MembersOf(rs, r) == IF Has(rs, r) THEN Ids(rs[r].players) ELSE {}

\* the group of every room id is the set of its players' connections
GroupsAreMembers == \A r \in RoomIds : groups[r] = MembersOf(rooms, r)

ToRoomKinds == {"roomState", "gameStarted", "gameReadyNotify", "actionBroadcast"}

\* C18: when every createRoom gets an id no room has, the connections
\* subscribed to a room's group are exactly the connections of the room's
\* players, in every state, and every roomState, gameStarted, gameReadyNotify
\* and actionBroadcast is delivered to exactly the room's players.
C18_GroupIsMembers ==
  [][/\ GroupsAreMembers'
     /\ \A i \in 1..Len(out') :
          out'[i].kind \in ToRoomKinds
            => out'[i].to = MembersOf(rooms', out'[i].roomId)]_vars

\* the host has left its room by leaveRoom: it is out of the group, and the
\* roomState went to the player left, who is the group
C18_Witness ==
  /\ last = "leaveRoom"
  /\ \A c \in Conns : sockets[c] # "disconnected"
  /\ Len(out) = 1 /\ out[1].kind = "roomState"
  /\ Has(rooms, out[1].roomId)
  /\ Players(out[1].roomId)[1].seat > 0
  /\ out[1].to = groups[out[1].roomId]
  /\ groups[out[1].roomId] = Ids(Players(out[1].roomId))
  /\ \E c \in Conns : Connected(c) /\ c \notin groups[out[1].roomId]

\* C19: whenever startGame succeeds on a room, at least two distinct
\* connections are players of that room (one connection alone cannot take a
\* room to playing).
C19_TwoConnectionsToPlay ==
  [][\A r \in DOMAIN rooms, c \in Conns :
       (/\ last' = "startGame"
        /\ startGame(rooms, r, c) = NoError
        /\ OnStartGame(c, r))
       => Cardinality(Ids(rooms[r].players)) >= MinPlayers]_vars

\* in part_000: a player of room r who is its host leaves it (leaveRoom or
\* disconnect) and r stays in the registry
HostLeaves_part000(c, r) ==
  /\ last' \in {"leaveRoom", "disconnect"}
  /\ Has(rooms, r) /\ Has(rooms', r)
  /\ \E i \in 1..Len(rooms[r].players) :
       rooms[r].players[i].id = c /\ rooms[r].players[i].isHost
  /\ OnLeaveRoom_part000(c, r) \/ OnDisconnect_part000(c)

\* C20: in part_000, after the host leaves or disconnects from a room that
\* stays non-empty, exactly one of the players left has isHost = TRUE.
C20_Part000HostTransfer ==
  [][\A c \in Conns, r \in RoomIds :
       HostLeaves_part000(c, r)
       => Cardinality(HostIndexes(rooms'[r])) = 1]_vars

====
